---- MODULE Spec2Model ----
(***************************************************************************)
(* Model of assignment1/a1.py: the CommandInterface game engine.           *)
(*                                                                         *)
(* Representation.                                                         *)
(*  - `self` is the CommandInterface object: a record with the fields the  *)
(*    constructor sets (cols, rows, cutoff, handicap, board, current,      *)
(*    history, ended).                                                     *)
(*  - Python floats (handicap, cutoff, scores) are held as an integer      *)
(*    number of HALVES: 3 stands for 1.5, -1 for -0.5, 2*n for float(n).   *)
(*    Every float the model builds is such a dyadic value, so float        *)
(*    arithmetic and comparison are exact on them.                         *)
(*  - board[r][c] of the source (0-based) is self.board[r+1][c+1].         *)
(*  - A command argument is a token [k, v]: k = "int" for an integer       *)
(*    literal with value v, k = "float" for a numeric literal that is not  *)
(*    an integer literal (such as "0.5" or "1.0"; v is its value in        *)
(*    halves), k = "word" for text that is no number.                      *)
(*  - `last` records the last command executed by main_loop: its name,     *)
(*    whether the handler returned True, and the lines it printed.         *)
(***************************************************************************)
EXTENDS Integers, Sequences, FiniteSets, TLC

VARIABLES self, last

vars == <<self, last>>

(***************************************************************************)
(* Bounds of the model.                                                    *)
(***************************************************************************)
\* widest and tallest board the commands ask for
MaxCols == 3
MaxRows == 2
\* init_game inputs of the game specification keep cols * rows within this
MaxCells == 4
\* boards of the scoring specification have sides up to this, and keep
\* cols * rows within MaxScoreCells
MaxSide == 3
MaxScoreCells == 9

\* the largest dimension init_game accepts
MaxDim == 20

(***************************************************************************)
(* Argument tokens and their parsing.                                      *)
(***************************************************************************)
I(n) == [k |-> "int", v |-> n]
F(h) == [k |-> "float", v |-> h]
W == [k |-> "word", v |-> 0]

\* int(tok) raises ValueError unless tok is an integer literal
int_ok(tok) == tok.k = "int"
int(tok) == tok.v

\* float(tok) raises ValueError on text that is no number; float of an
\* integer literal n is n.0, that is 2*n halves
float_ok(tok) == tok.k \in {"int", "float"}
float(tok) == IF tok.k = "int" THEN 2 * tok.v ELSE tok.v

(***************************************************************************)
(* Results of a handler: the object after it, its return value, and the    *)
(* lines it printed.                                                       *)
(***************************************************************************)
Ret(s, ok, out) == [self |-> s, ok |-> ok, out |-> out]

\* print("= -1\n"); return False
Fail(s) == Ret(s, FALSE, <<"= -1", "">>)

(***************************************************************************)
(* CommandInterface.__init__                                               *)
(***************************************************************************)
__init__ ==
    [cols |-> 0, rows |-> 0, cutoff |-> 0, handicap |-> 0, board |-> <<>>,
     current |-> 1, history |-> <<>>, ended |-> FALSE]

(***************************************************************************)
(* Board helpers.                                                          *)
(***************************************************************************)
_in_bounds(s, c, r) == 0 <= c /\ c < s.cols /\ 0 <= r /\ r < s.rows

\* _is_legal without the test of the ended flag
_is_legal_ignores_ended(s, c, r) ==
    _in_bounds(s, c, r) /\ s.board[r + 1][c + 1] = 0

_is_legal(s, c, r) ==
    (~s.ended) /\ _in_bounds(s, c, r) /\ s.board[r + 1][c + 1] = 0

_board_full(s) ==
    \A r \in 0 .. s.rows - 1 : \A c \in 0 .. s.cols - 1 : s.board[r + 1][c + 1] # 0

(***************************************************************************)
(* _compute_scores: maximal runs in the four directions E, S, SE, NE, then *)
(* +1 for every stone in no run of length >= 2, then the handicap.         *)
(***************************************************************************)
dirs == <<(<<1, 0>>), (<<0, 1>>), (<<1, 1>>), (<<1, -1>>)>>

\* the `for r ... for c ...` loops: every (c, r) of the board
cells(s) == (0 .. s.cols - 1) \X (0 .. s.rows - 1)

\* the `while` loop that walks forward from (cc, rr) over stones of p
RECURSIVE run_length(_, _, _, _, _, _)
run_length(s, cc, rr, dc, dr, p) ==
    IF _in_bounds(s, cc, rr) /\ s.board[rr + 1][cc + 1] = p
    THEN 1 + run_length(s, cc + dc, rr + dr, dc, dr, p)
    ELSE 0

\* is_run_start without the look at the cell before: every stone starts a run
is_run_start_any(s, c, r, d) == s.board[r + 1][c + 1] # 0

\* (c, r) holds a stone and is where a run starts in direction d: the cell
\* before it is out of bounds or not the same player's
is_run_start(s, c, r, d) ==
    LET p  == s.board[r + 1][c + 1]
        pc == c - dirs[d][1]
        pr == r - dirs[d][2]
    IN  p # 0 /\ ~(_in_bounds(s, pc, pr) /\ s.board[pr + 1][pc + 1] = p)

\* the runs the loops count: start, direction, owner and length, length >= 2
long_runs(s) ==
    LET starts == {x \in cells(s) \X (1 .. Len(dirs)) :
                       is_run_start(s, x[1][1], x[1][2], x[2])}
        run(x) == [c |-> x[1][1], r |-> x[1][2],
                   p |-> s.board[x[1][2] + 1][x[1][1] + 1],
                   d |-> x[2],
                   length |-> run_length(s, x[1][1], x[1][2],
                                         dirs[x[2]][1], dirs[x[2]][2],
                                         s.board[x[1][2] + 1][x[1][1] + 1])]
    IN  {y \in {run(x) : x \in starts} : y.length >= 2}

\* the set in_long_line after the first pair of loops
in_long_line(runs) ==
    UNION {{<<y.c + i * dirs[y.d][1], y.r + i * dirs[y.d][2]>> :
               i \in 0 .. y.length - 1} : y \in runs}

\* run_values with val = L - 1 in place of 1 << (L-1)
RECURSIVE run_values_linear(_, _)
run_values_linear(runs, p) ==
    IF runs = {} THEN 0
    ELSE LET y == CHOOSE z \in runs : TRUE
         IN  (IF y.p = p THEN y.length - 1 ELSE 0)
             + run_values_linear(runs \ {y}, p)

\* s1 += val / s2 += val over the counted runs of player p, val = 1 << (L-1)
RECURSIVE run_values(_, _)
run_values(runs, p) ==
    IF runs = {} THEN 0
    ELSE LET y == CHOOSE z \in runs : TRUE
         IN  (IF y.p = p THEN 2 ^ (y.length - 1) ELSE 0)
             + run_values(runs \ {y}, p)

\* singletons counted for player 1 only
singletons_first_only(s, marked, p) ==
    IF p = 1
    THEN Cardinality({x \in cells(s) :
                         s.board[x[2] + 1][x[1] + 1] = p /\ x \notin marked})
    ELSE 0

\* the second pair of loops: stones of p not in any long line
singletons(s, marked, p) ==
    Cardinality({x \in cells(s) :
                    s.board[x[2] + 1][x[1] + 1] = p /\ x \notin marked})

\* _compute_scores with the handicap added to player 1's score
_compute_scores_handicap_first(s) ==
    LET runs   == long_runs(s)
        marked == in_long_line(runs)
        s1 == run_values(runs, 1) + singletons(s, marked, 1)
        s2 == run_values(runs, 2) + singletons(s, marked, 2)
    IN  <<2 * s1 + s.handicap, 2 * s2>>

\* returns (float(s1), float(s2)) in halves; the handicap goes to player 2
_compute_scores(s) ==
    LET runs   == long_runs(s)
        marked == in_long_line(runs)
        s1 == run_values(runs, 1) + singletons(s, marked, 1)
        s2 == run_values(runs, 2) + singletons(s, marked, 2)
    IN  <<2 * s1, 2 * s2 + s.handicap>>

(***************************************************************************)
(* End of game and winner.                                                 *)
(***************************************************************************)
\* the end test that never ends a game without a cutoff
_game_should_end_cutoff_only(s, s1, s2) ==
    IF s.cutoff = 0 THEN FALSE
    ELSE IF s1 >= s.cutoff \/ s2 >= s.cutoff THEN TRUE
    ELSE FALSE

\* the end test that looks at player 1's score only
_game_should_end_first_player_only(s, s1, s2) ==
    IF s.cutoff = 0 THEN _board_full(s)
    ELSE IF s1 >= s.cutoff THEN TRUE
    ELSE FALSE

\* the end test without the cutoff == 0 case
_game_should_end_no_infinite_mode(s, s1, s2) ==
    IF s1 >= s.cutoff \/ s2 >= s.cutoff THEN TRUE ELSE FALSE

\* the end test with > in place of >=
_game_should_end_strict(s, s1, s2) ==
    IF s.cutoff = 0 THEN _board_full(s)
    ELSE IF s1 > s.cutoff \/ s2 > s.cutoff THEN TRUE
    ELSE FALSE

_game_should_end_after_move(s, s1, s2) ==
    IF s.cutoff = 0 THEN _board_full(s)
    ELSE IF s1 >= s.cutoff \/ s2 >= s.cutoff THEN TRUE
    ELSE FALSE

\* the winner with >= in place of the first >: a tie goes to player 1
_winner_tie_to_first(s, s1, s2) ==
    IF s.cutoff = 0
    THEN IF ~_board_full(s) THEN "unknown"
         ELSE IF s1 >= s2 THEN "1"
         ELSE "2"
    ELSE IF s1 >= s.cutoff \/ s2 >= s.cutoff
         THEN IF s1 >= s2 THEN "1"
              ELSE "2"
         ELSE "unknown"

_winner_from_scores(s, s1, s2) ==
    IF s.cutoff = 0
    THEN IF ~_board_full(s) THEN "unknown"
         ELSE IF s1 > s2 THEN "1"
         ELSE IF s2 > s1 THEN "2"
         ELSE "unknown"
    ELSE IF s1 >= s.cutoff \/ s2 >= s.cutoff
         THEN IF s1 > s2 THEN "1"
              ELSE IF s2 > s1 THEN "2"
              ELSE "unknown"
         ELSE "unknown"

(***************************************************************************)
(* The command handlers.  Each takes the object and the argument list and  *)
(* returns Ret(object after, return value, printed lines).                 *)
(***************************************************************************)
\* init_game without the upper limit on the number of rows
init_game_rows_unbounded(s, args) ==
    IF Len(args) # 4 THEN Fail(s)
    ELSE IF ~(int_ok(args[1]) /\ int_ok(args[2])
              /\ float_ok(args[3]) /\ float_ok(args[4])) THEN Fail(s)
    ELSE LET w  == int(args[1])
             h  == int(args[2])
             p  == float(args[3])
             sc == float(args[4])
         IN  IF ~(1 <= w /\ w <= MaxDim /\ 1 <= h) THEN Fail(s)
             ELSE IF sc < 0 THEN Fail(s)
             ELSE Ret([cols |-> w, rows |-> h, cutoff |-> sc, handicap |-> p,
                       board |-> [r \in 1 .. h |-> [c \in 1 .. w |-> 0]],
                       current |-> 1, history |-> <<>>, ended |-> FALSE],
                      TRUE, <<>>)

init_game(s, args) ==
    IF Len(args) # 4 THEN Fail(s)
    ELSE IF ~(int_ok(args[1]) /\ int_ok(args[2])
              /\ float_ok(args[3]) /\ float_ok(args[4])) THEN Fail(s)
    ELSE LET w  == int(args[1])
             h  == int(args[2])
             p  == float(args[3])
             sc == float(args[4])
         IN  IF ~(1 <= w /\ w <= MaxDim /\ 1 <= h /\ h <= MaxDim) THEN Fail(s)
             ELSE IF sc < 0 THEN Fail(s)
             ELSE Ret([cols |-> w, rows |-> h, cutoff |-> sc, handicap |-> p,
                       board |-> [r \in 1 .. h |-> [c \in 1 .. w |-> 0]],
                       current |-> 1, history |-> <<>>, ended |-> FALSE],
                      TRUE, <<>>)

legal(s, args) ==
    IF Len(args) # 2 THEN Fail(s)
    ELSE IF ~(int_ok(args[1]) /\ int_ok(args[2])) THEN Fail(s)
    ELSE LET c == int(args[1])
             r == int(args[2])
         IN  Ret(s, TRUE, <<IF _is_legal(s, c, r) THEN "yes" ELSE "no">>)

\* play that passes the turn even when the move ends the game
play_always_flips(s, args) ==
    IF Len(args) # 2 THEN Fail(s)
    ELSE IF ~(int_ok(args[1]) /\ int_ok(args[2])) THEN Fail(s)
    ELSE LET c == int(args[1])
             r == int(args[2])
         IN  IF ~_is_legal(s, c, r) THEN Fail(s)
             ELSE LET moved == [s EXCEPT
                                  !.board[r + 1][c + 1] = s.current,
                                  !.history = Append(s.history, <<c, r, s.current>>),
                                  !.current = 3 - s.current]
                      sc == _compute_scores(moved)
                  IN  IF _game_should_end_after_move(moved, sc[1], sc[2])
                      THEN Ret([moved EXCEPT !.ended = TRUE], TRUE, <<>>)
                      ELSE Ret(moved, TRUE, <<>>)

\* play that passes the turn when it refuses a move
play_refusal_passes_turn(s, args) ==
    IF Len(args) # 2 THEN Fail(s)
    ELSE IF ~(int_ok(args[1]) /\ int_ok(args[2])) THEN Fail(s)
    ELSE LET c == int(args[1])
             r == int(args[2])
         IN  IF ~_is_legal(s, c, r) THEN Fail([s EXCEPT !.current = 3 - s.current])
             ELSE LET moved == [s EXCEPT
                                  !.board[r + 1][c + 1] = s.current,
                                  !.history = Append(s.history, <<c, r, s.current>>)]
                      sc == _compute_scores(moved)
                  IN  IF _game_should_end_after_move(moved, sc[1], sc[2])
                      THEN Ret([moved EXCEPT !.ended = TRUE], TRUE, <<>>)
                      ELSE Ret([moved EXCEPT !.current = 3 - s.current], TRUE, <<>>)

play(s, args) ==
    IF Len(args) # 2 THEN Fail(s)
    ELSE IF ~(int_ok(args[1]) /\ int_ok(args[2])) THEN Fail(s)
    ELSE LET c == int(args[1])
             r == int(args[2])
         IN  IF ~_is_legal(s, c, r) THEN Fail(s)
             ELSE LET moved == [s EXCEPT
                                  !.board[r + 1][c + 1] = s.current,
                                  !.history = Append(s.history, <<c, r, s.current>>)]
                      sc == _compute_scores(moved)
                  IN  IF _game_should_end_after_move(moved, sc[1], sc[2])
                      THEN Ret([moved EXCEPT !.ended = TRUE], TRUE, <<>>)
                      ELSE Ret([moved EXCEPT !.current = 3 - s.current], TRUE, <<>>)

\* legal_moves that lists the Empty cells without asking _is_legal
legal_moves_empty_cells(s) ==
    LET all == [k \in 1 .. s.rows * s.cols |->
                   <<(k - 1) % s.cols, (k - 1) \div s.cols>>]
    IN  SelectSeq(all, LAMBDA m : s.board[m[2] + 1][m[1] + 1] = 0)

\* the list `moves`: the legal cells, row outer, column inner
legal_moves(s) ==
    LET all == [k \in 1 .. s.rows * s.cols |->
                   <<(k - 1) % s.cols, (k - 1) \div s.cols>>]
    IN  SelectSeq(all, LAMBDA m : _is_legal(s, m[1], m[2]))

\* genmove that places the stone and passes the turn without the end test
genmove_never_ends(s, args, rnd) ==
    LET moves == legal_moves(s)
    IN  IF moves = <<>> THEN Ret(s, TRUE, <<"resign">>)
        ELSE LET c == moves[rnd][1]
                 r == moves[rnd][2]
                 moved == [s EXCEPT
                             !.board[r + 1][c + 1] = s.current,
                             !.history = Append(s.history, <<c, r, s.current>>)]
                 out == <<ToString(c) \o " " \o ToString(r)>>
             IN  Ret([moved EXCEPT !.current = 3 - s.current], TRUE, out)

\* genmove that marks the game ended when it resigns
genmove_resign_ends(s, args, rnd) ==
    LET moves == legal_moves(s)
    IN  IF moves = <<>> THEN Ret([s EXCEPT !.ended = TRUE], TRUE, <<"resign">>)
        ELSE LET c == moves[rnd][1]
                 r == moves[rnd][2]
                 moved == [s EXCEPT
                             !.board[r + 1][c + 1] = s.current,
                             !.history = Append(s.history, <<c, r, s.current>>)]
                 sc == _compute_scores(moved)
                 out == <<ToString(c) \o " " \o ToString(r)>>
             IN  IF _game_should_end_after_move(moved, sc[1], sc[2])
                 THEN Ret([moved EXCEPT !.ended = TRUE], TRUE, out)
                 ELSE Ret([moved EXCEPT !.current = 3 - s.current], TRUE, out)

\* genmove that passes the turn when it resigns
genmove_resign_passes(s, args, rnd) ==
    LET moves == legal_moves(s)
    IN  IF moves = <<>>
        THEN Ret([s EXCEPT !.current = 3 - s.current], TRUE, <<"resign">>)
        ELSE LET c == moves[rnd][1]
                 r == moves[rnd][2]
                 moved == [s EXCEPT
                             !.board[r + 1][c + 1] = s.current,
                             !.history = Append(s.history, <<c, r, s.current>>)]
                 sc == _compute_scores(moved)
                 out == <<ToString(c) \o " " \o ToString(r)>>
             IN  IF _game_should_end_after_move(moved, sc[1], sc[2])
                 THEN Ret([moved EXCEPT !.ended = TRUE], TRUE, out)
                 ELSE Ret([moved EXCEPT !.current = 3 - s.current], TRUE, out)

\* rnd is the index random.choice draws in `moves`
genmove(s, args, rnd) ==
    LET moves == legal_moves(s)
    IN  IF moves = <<>> THEN Ret(s, TRUE, <<"resign">>)
        ELSE LET c == moves[rnd][1]
                 r == moves[rnd][2]
                 moved == [s EXCEPT
                             !.board[r + 1][c + 1] = s.current,
                             !.history = Append(s.history, <<c, r, s.current>>)]
                 sc == _compute_scores(moved)
                 out == <<ToString(c) \o " " \o ToString(r)>>
             IN  IF _game_should_end_after_move(moved, sc[1], sc[2])
                 THEN Ret([moved EXCEPT !.ended = TRUE], TRUE, out)
                 ELSE Ret([moved EXCEPT !.current = 3 - s.current], TRUE, out)

\* undo that gives the turn to the opponent of the undone move's player
undo_turn_to_opponent(s, args) ==
    IF args # <<>> THEN Fail(s)
    ELSE IF s.history = <<>> THEN Fail(s)
    ELSE LET m == s.history[Len(s.history)]
         IN  Ret([s EXCEPT !.history = SubSeq(s.history, 1, Len(s.history) - 1),
                           !.board[m[2] + 1][m[1] + 1] = 0,
                           !.current = 3 - m[3],
                           !.ended = FALSE],
                 TRUE, <<>>)

\* undo that pops the history but leaves the stone on the board
undo_keeps_stone(s, args) ==
    IF args # <<>> THEN Fail(s)
    ELSE IF s.history = <<>> THEN Fail(s)
    ELSE LET m == s.history[Len(s.history)]
         IN  Ret([s EXCEPT !.history = SubSeq(s.history, 1, Len(s.history) - 1),
                           !.current = m[3],
                           !.ended = FALSE],
                 TRUE, <<>>)

\* undo that leaves the ended flag as it is
undo_keeps_ended(s, args) ==
    IF args # <<>> THEN Fail(s)
    ELSE IF s.history = <<>> THEN Fail(s)
    ELSE LET m == s.history[Len(s.history)]
         IN  Ret([s EXCEPT !.history = SubSeq(s.history, 1, Len(s.history) - 1),
                           !.board[m[2] + 1][m[1] + 1] = 0,
                           !.current = m[3]],
                 TRUE, <<>>)

undo(s, args) ==
    IF args # <<>> THEN Fail(s)
    ELSE IF s.history = <<>> THEN Fail(s)
    ELSE LET m == s.history[Len(s.history)]
         IN  Ret([s EXCEPT !.history = SubSeq(s.history, 1, Len(s.history) - 1),
                           !.board[m[2] + 1][m[1] + 1] = 0,
                           !.current = m[3],
                           !.ended = FALSE],
                 TRUE, <<>>)

\* fmt: an integral float prints as an integer, another one as str(x)
fmt(x) ==
    IF x % 2 = 0 THEN ToString(x \div 2)
    ELSE IF x < 0 THEN "-" \o ToString((0 - x) \div 2) \o ".5"
    ELSE ToString(x \div 2) \o ".5"

score(s, args) ==
    LET sc == _compute_scores(s)
    IN  Ret(s, TRUE, <<fmt(sc[1]) \o " " \o fmt(sc[2])>>)

winner(s, args) ==
    LET sc == _compute_scores(s)
    IN  Ret(s, TRUE, <<_winner_from_scores(s, sc[1], sc[2])>>)

RECURSIVE join(_)
join(syms) ==
    IF syms = <<>> THEN ""
    ELSE IF Len(syms) = 1 THEN syms[1]
    ELSE syms[1] \o " " \o join(Tail(syms))

show(s, args) ==
    Ret(s, TRUE,
        [r \in 1 .. s.rows |->
            join([c \in 1 .. s.cols |->
                     IF s.board[r][c] = 0 THEN "_" ELSE ToString(s.board[r][c])])
            \o " "])

\* the keys of command_dict, in insertion order
command_dict ==
    <<"help", "init_game", "legal", "play", "genmove", "undo", "score",
      "winner", "show">>

help(s, args) ==
    Ret(s, TRUE, SelectSeq(command_dict, LAMBDA cmd : cmd # "help") \o <<"exit">>)

(***************************************************************************)
(* process_command and one turn of main_loop.  A line is its command word  *)
(* and its arguments, already split; the empty line has the word "".       *)
(***************************************************************************)
process_command(s, command, args, rnd) ==
    IF command = "" THEN Fail(s)
    ELSE IF \A i \in 1 .. Len(command_dict) : command_dict[i] # command
    THEN Fail(s)
    ELSE CASE command = "help"      -> help(s, args)
           [] command = "init_game" -> init_game(s, args)
           [] command = "legal"     -> legal(s, args)
           [] command = "play"      -> play(s, args)
           [] command = "genmove"   -> genmove(s, args, rnd)
           [] command = "undo"      -> undo(s, args)
           [] command = "score"     -> score(s, args)
           [] command = "winner"    -> winner(s, args)
           [] command = "show"      -> show(s, args)

\* main_loop prints "= 1" after a command that returned True
main_loop(s, command, args, rnd) ==
    LET res == process_command(s, command, args, rnd)
    IN  IF res.ok THEN Ret(res.self, TRUE, res.out \o <<"= 1", "">>)
        ELSE res

(***************************************************************************)
(* The inputs the commands are given.                                      *)
(***************************************************************************)
\* handicaps "-0.5", "0", "1"
HandicapInputs == {F(-1), I(0), I(1)}
\* cutoffs "-0.5" (refused), "0", "1", "2"
CutoffInputs == {F(-1), I(0), I(1), I(2)}
\* dimensions 0 .. max and the first one above the accepted range
DimInputs(max) == {I(n) : n \in 0 .. max} \cup {I(MaxDim + 1)}

DimsAccepted(w, h) == 1 <= w /\ w <= MaxDim /\ 1 <= h /\ h <= MaxDim

\* well-formed argument lists.  Accepted dimensions come with every
\* handicap and cutoff, keeping the board within MaxCells cells; refused
\* dimensions come with handicap "0" and the cutoffs "0" and "-0.5".
InitArgs ==
    {a \in DimInputs(MaxCols) \X DimInputs(MaxRows) \X HandicapInputs \X CutoffInputs :
        IF DimsAccepted(a[1].v, a[2].v)
        THEN a[1].v * a[2].v <= MaxCells
        ELSE a[3] = I(0) /\ a[4] \in {I(0), F(-1)}}
    \cup {<<>>, <<I(1), I(1), I(0)>>, <<W, I(1), I(0), I(0)>>,
          <<I(1), F(2), I(0), I(0)>>, <<I(1), I(1), W, I(0)>>,
          <<I(1), I(1), I(0), W>>}

\* coordinates from one below the board to one past the widest board
CoordArgs ==
    {<<I(c), I(r)>> : c \in -1 .. MaxCols, r \in -1 .. MaxRows}
    \cup {<<>>, <<I(0)>>, <<I(0), I(0), I(0)>>, <<W, I(0)>>, <<I(0), F(0)>>}

(***************************************************************************)
(* The state machine: one action per command read by main_loop.            *)
(***************************************************************************)
Init ==
    /\ self = __init__
    /\ last = [ok |-> TRUE, out |-> <<>>, op |-> ""]

Step(command, args, rnd) ==
    \E res \in {main_loop(self, command, args, rnd)} :
        /\ self' = res.self
        /\ last' = [ok |-> res.ok, out |-> res.out, op |-> command]

InitGame == \E args \in InitArgs : Step("init_game", args, 1)

Legal == \E args \in CoordArgs : Step("legal", args, 1)

Play == \E args \in CoordArgs : Step("play", args, 1)

GenMove ==
    \E rnd \in 1 .. (IF legal_moves(self) = <<>> THEN 1 ELSE Len(legal_moves(self))) :
        Step("genmove", <<>>, rnd)

\* undo is the one command that refuses arguments
Undo == \E args \in {<<>>, <<W>>} : Step("undo", args, 1)

Score == Step("score", <<>>, 1)

Winner == Step("winner", <<>>, 1)

Show == Step("show", <<>>, 1)

Help == Step("help", <<>>, 1)

\* the empty line, and a word that is no command
Unknown == \E command \in {"", "quit"} : Step(command, <<>>, 1)

Next ==
    \/ InitGame
    \/ Legal
    \/ Play
    \/ GenMove
    \/ Undo
    \/ Score
    \/ Winner
    \/ Show
    \/ Help
    \/ Unknown

Spec == Init /\ [][Next]_vars

(***************************************************************************)
(* The scoring specification: _compute_scores is a function of the board   *)
(* and the handicap alone, so it is run (by the score command) on every    *)
(* board of bounded size, whether or not a game reaches it.                *)
(***************************************************************************)
\* handicaps "0" and "-0.5"
ScoreHandicaps == {I(0), F(-1)}

ScoreDims ==
    {d \in (1 .. MaxSide) \X (1 .. MaxSide) : d[1] * d[2] <= MaxScoreCells}

InitScore ==
    /\ \E d \in ScoreDims :
         \E b \in [1 .. d[2] -> [1 .. d[1] -> 0 .. 2]] :
           \E p \in ScoreHandicaps :
             self = [cols |-> d[1], rows |-> d[2], cutoff |-> 0,
                     handicap |-> float(p), board |-> b, current |-> 1,
                     history |-> <<>>, ended |-> FALSE]
    /\ last = [ok |-> TRUE, out |-> <<>>, op |-> ""]

SpecScore == InitScore /\ [][Score]_vars

(***************************************************************************)
(* Vocabulary of the properties.                                           *)
(***************************************************************************)
\* the last step applied a move: play or genmove put a stone on the board
MoveApplied ==
    /\ last'.op \in {"play", "genmove"}
    /\ last'.ok
    /\ Len(self'.history) = Len(self.history) + 1

\* the value of cell (c, r), or -1 when (c, r) is not on the board
CellOr(s, c, r) ==
    IF 0 <= c /\ c < s.cols /\ 0 <= r /\ r < s.rows
    THEN s.board[r + 1][c + 1] ELSE -1

HasEmptyCell(s) == \E x \in cells(s) : CellOr(s, x[1], x[2]) = 0

\* coordinates that reach two cells beyond every board of the model
ProbeCols == -2 .. MaxCols + 1
ProbeRows == -2 .. MaxRows + 1

(***************************************************************************)
(* C1.  A successful Play followed immediately by Undo restores the board, *)
(* the current player, the ended flag and the history (the whole object)   *)
(* to their values before the Play, also when the Play ended the game:     *)
(* on every successful play step, undo applied to the state after it       *)
(* succeeds and returns the state before it.                               *)
(***************************************************************************)
C1_PlayUndoRestores ==
    [][(last'.op = "play" /\ last'.ok)
          => (undo(self', <<>>).ok /\ undo(self', <<>>).self = self)]_vars

\* a play that ended the game on its third move or later has acted, and
\* undo has a move to take back
C1_Witness ==
    /\ last.op = "play" /\ last.ok
    /\ self.ended
    /\ Len(self.history) >= 3
    /\ undo(self, <<>>).ok
    /\ ~undo(self, <<>>).self.ended

(***************************************************************************)
(* C2.  In every reachable state and for every integer pair (c, r),        *)
(* negative and too large ones included, IsLegal(c, r) is true exactly     *)
(* when the game has not ended, 0 <= c < cols, 0 <= r < rows and cell      *)
(* (c, r) is Empty; the legal command answers "yes" or "no" accordingly,   *)
(* succeeds, and changes nothing.                                          *)
(***************************************************************************)
C2_IsLegalIff ==
    \A c \in ProbeCols : \A r \in ProbeRows :
        LET expected == (~self.ended) /\ CellOr(self, c, r) = 0
            res == legal(self, <<I(c), I(r)>>)
        IN  /\ _is_legal(self, c, r) <=> expected
            /\ res.ok
            /\ res.self = self
            /\ res.out = <<IF expected THEN "yes" ELSE "no">>

\* legal has answered "no" on an ended game that still has an Empty cell
C2_Witness ==
    /\ last.op = "legal" /\ last.ok
    /\ last.out[1] = "no"
    /\ self.ended
    /\ HasEmptyCell(self)

(***************************************************************************)
(* C3.  InitGame with cols or rows outside [1, 20], or with cutoff < 0,    *)
(* fails and leaves the whole prior state unchanged, whatever the state.   *)
(***************************************************************************)
C3_BadInitNoChange ==
    \A w \in {-1, 0, 1, MaxDim, MaxDim + 1} :
      \A h \in {-1, 0, 1, MaxDim, MaxDim + 1} :
        \A p \in HandicapInputs : \A sc \in CutoffInputs :
            (~(1 <= w /\ w <= 20 /\ 1 <= h /\ h <= 20) \/ float(sc) < 0)
                => LET res == init_game(self, <<I(w), I(h), p, sc>>)
                   IN  ~res.ok /\ res.self = self

\* init_game has failed while a game with stones on the board was going on
C3_Witness ==
    /\ last.op = "init_game" /\ ~last.ok
    /\ Len(self.history) >= 2
    /\ self.rows >= 1

(***************************************************************************)
(* C4.  Every failing operation leaves the whole game state unchanged: a   *)
(* Play on a cell that is not legal (out of bounds, occupied, or the game  *)
(* has ended) reports failure, an Undo with an empty history reports       *)
(* failure, and every step whose command reported failure changed nothing  *)
(* of the object.                                                          *)
(***************************************************************************)
C4_FailureNoChange ==
    /\ [](\A c \in ProbeCols : \A r \in ProbeRows :
              (self.ended \/ CellOr(self, c, r) # 0)
                  => ~play(self, <<I(c), I(r)>>).ok)
    /\ [](self.history = <<>> => ~undo(self, <<>>).ok)
    /\ [][~last'.ok => self' = self]_vars

\* a play has been refused in a game that is going on and has not ended
C4_Witness ==
    /\ last.op = "play" /\ ~last.ok
    /\ Len(self.history) >= 1
    /\ ~self.ended
    /\ self.current = 2

(***************************************************************************)
(* C5.  When cutoff == 0, a successful Play or GenMove sets ended to true  *)
(* if and only if the board has no Empty cell after the move, whatever the *)
(* scores are.                                                             *)
(***************************************************************************)
C5_InfiniteModeEnd ==
    [][(MoveApplied /\ self.cutoff = 0)
          => (self'.ended <=> ~HasEmptyCell(self'))]_vars

\* with cutoff 0, a move has filled a board of four cells and ended the game
C5_Witness ==
    /\ last.op \in {"play", "genmove"} /\ last.ok
    /\ self.cutoff = 0
    /\ self.ended
    /\ Len(self.history) = 4
    /\ ~HasEmptyCell(self)

(***************************************************************************)
(* C6.  When cutoff > 0, the game ends right after every successful Play   *)
(* or GenMove after which a player's score (player 2's with the handicap)  *)
(* is >= cutoff, and ended stays false after a move that leaves both       *)
(* scores below the cutoff, even if that move fills the board.             *)
(***************************************************************************)
C6_CutoffEnd ==
    [][(MoveApplied /\ self.cutoff > 0)
          => LET sc == _compute_scores(self')
             IN  self'.ended <=> (sc[1] >= self.cutoff \/ sc[2] >= self.cutoff)]_vars

\* with a cutoff, a move has filled the board and the game has not ended
C6_Witness ==
    /\ last.op \in {"play", "genmove"} /\ last.ok
    /\ self.cutoff > 0
    /\ Len(self.history) >= 2
    /\ ~HasEmptyCell(self)
    /\ ~self.ended

(***************************************************************************)
(* C7.  Winner() is "unknown" unless the decision condition holds (cutoff  *)
(* == 0: no Empty cell; cutoff > 0: a score >= cutoff); when it holds the  *)
(* winner is "1" if score1 > score2, "2" if score2 > score1, and "unknown" *)
(* on equal scores, also when both scores are at or above the cutoff.      *)
(***************************************************************************)
C7_Winner ==
    LET sc == _compute_scores(self)
        res == winner(self, <<>>)
        decided == IF self.cutoff = 0 THEN ~HasEmptyCell(self)
                   ELSE sc[1] >= self.cutoff \/ sc[2] >= self.cutoff
    IN  /\ res.ok /\ res.self = self
        /\ ~decided => res.out = <<"unknown">>
        /\ (decided /\ sc[1] > sc[2]) => res.out = <<"1">>
        /\ (decided /\ sc[2] > sc[1]) => res.out = <<"2">>
        /\ (decided /\ sc[1] = sc[2]) => res.out = <<"unknown">>

\* winner has answered "unknown" with both scores equal and at the cutoff
C7_Witness ==
    /\ last.op = "winner" /\ last.ok
    /\ last.out[1] = "unknown"
    /\ self.cutoff > 0
    /\ Len(self.history) >= 1
    /\ _compute_scores(self)[1] = _compute_scores(self)[2]
    /\ _compute_scores(self)[1] >= self.cutoff

(***************************************************************************)
(* C8.  GenMove in a state with no legal cell (a full board, or an ended   *)
(* game that still has Empty cells) reports Resign as a success and leaves *)
(* the object unchanged; GenMove reports Resign only in such states, and   *)
(* applies a move in every other.                                          *)
(***************************************************************************)
C8_GenMoveResign ==
    [][(last'.op = "genmove")
          => /\ last'.ok
             /\ IF self.ended \/ ~HasEmptyCell(self)
                THEN last'.out[1] = "resign" /\ self' = self
                ELSE last'.out[1] # "resign"
                     /\ Len(self'.history) = Len(self.history) + 1]_vars

\* genmove has resigned on a full board of a game that has not ended
C8_Witness ==
    /\ last.op = "genmove" /\ last.ok
    /\ last.out[1] = "resign"
    /\ Len(self.history) >= 2
    /\ ~HasEmptyCell(self)
    /\ ~self.ended

(***************************************************************************)
(* C9.  With handicap 0, for every board B, the board B' with every        *)
(* Player1 cell changed to Player2 and every Player2 cell changed to       *)
(* Player1 has Score(B') = (s2, s1) where Score(B) = (s1, s2).  Stated of  *)
(* every state the score command has just run in.                          *)
(***************************************************************************)
Swapped(s) ==
    [s EXCEPT !.board =
        [r \in 1 .. s.rows |->
            [c \in 1 .. s.cols |->
                IF s.board[r][c] = 0 THEN 0 ELSE 3 - s.board[r][c]]]]

C9_ScoreSymmetry ==
    (last.op = "score" /\ self.handicap = 0)
        => LET sc == _compute_scores(self)
               sw == _compute_scores(Swapped(self))
           IN  sw = <<sc[2], sc[1]>>

\* score has run, with handicap 0, on a board where player 1 has a run of
\* three (4 points or more, 8 halves), player 2 has stones, and the scores differ
C9_Witness ==
    /\ last.op = "score" /\ last.ok
    /\ self.handicap = 0
    /\ _compute_scores(self)[1] >= 8
    /\ _compute_scores(self)[2] >= 2
    /\ _compute_scores(self)[1] # _compute_scores(self)[2]

(***************************************************************************)
(* C10.  Score() equals the reference definition: for each player p, the   *)
(* sum of 2^(L-1) over every maximal run of p's stones of length L >= 2 in *)
(* each of the directions East, South, South-East and North-East (each     *)
(* maximal run once, overlapping runs all counted), plus 1 for every stone *)
(* of p that lies in no run of length >= 2 in any direction, plus the      *)
(* handicap for player 2 only.  Stated of every state the score command    *)
(* has just run in.                                                        *)
(***************************************************************************)
\* the four directions: East, South, South-East, North-East
RefDirs == {<<1, 0>>, <<0, 1>>, <<1, 1>>, <<1, -1>>}

\* the cells that hold a stone of p
RefStones(s, p) == {x \in cells(s) : s.board[x[2] + 1][x[1] + 1] = p}

\* a maximal run of p: L >= 2 cells of p in a line from x along d, with no
\* stone of p just before its first cell nor just after its last
RefMaximalRuns(s, p) ==
    LET stones == RefStones(s, p)
        at(x, d, i) == <<x[1] + i * d[1], x[2] + i * d[2]>>
    IN  {run \in stones \X RefDirs \X (2 .. (IF s.cols > s.rows THEN s.cols ELSE s.rows)) :
            /\ \A i \in 1 .. run[3] - 1 : at(run[1], run[2], i) \in stones
            /\ at(run[1], run[2], -1) \notin stones
            /\ at(run[1], run[2], run[3]) \notin stones}

\* a stone of p with no stone of p next to it along any of the directions
RefLoneStones(s, p) ==
    LET stones == RefStones(s, p)
    IN  {x \in stones :
            \A d \in RefDirs :
                /\ <<x[1] + d[1], x[2] + d[2]>> \notin stones
                /\ <<x[1] - d[1], x[2] - d[2]>> \notin stones}

RECURSIVE RefSum(_)
RefSum(runs) ==
    IF runs = {} THEN 0
    ELSE LET run == CHOOSE x \in runs : TRUE
         IN  2 ^ (run[3] - 1) + RefSum(runs \ {run})

RefPoints(s, p) == RefSum(RefMaximalRuns(s, p)) + Cardinality(RefLoneStones(s, p))

C10_ScoreReference ==
    last.op = "score"
        => _compute_scores(self)
             = <<2 * RefPoints(self, 1), 2 * RefPoints(self, 2) + self.handicap>>

\* score has run, with a handicap, on a board where a stone of player 1 lies
\* in two maximal runs at once, one of them of length 3, and player 2 has a
\* lone stone
C10_Witness ==
    /\ last.op = "score" /\ last.ok
    /\ self.handicap # 0
    /\ \E a \in RefMaximalRuns(self, 1) : \E b \in RefMaximalRuns(self, 1) :
          /\ a[2] # b[2]
          /\ a[1] = b[1]
          /\ a[3] = 3
    /\ RefLoneStones(self, 2) # {}

(***************************************************************************)
(* C11.  In every reachable state, for every handicap init_game accepts,   *)
(* both scores returned by Score() are non-negative.                       *)
(* As stated this fails: init_game accepts a negative handicap, which      *)
(* makes player 2's score negative.                                        *)
(***************************************************************************)
C11_ScoresNonNegative ==
    LET sc == _compute_scores(self)
    IN  sc[1] >= 0 /\ sc[2] >= 0

(***************************************************************************)
(* C11 as amended.  In every reachable state player 1's score is           *)
(* non-negative and player 2's score is at least the handicap, so both     *)
(* scores are non-negative whenever the handicap is.                       *)
(***************************************************************************)
C11_ScoresAtLeastHandicap ==
    LET sc == _compute_scores(self)
    IN  /\ sc[1] >= 0
        /\ sc[2] >= self.handicap
        /\ self.handicap >= 0 => sc[2] >= 0

\* score has run in a game under a negative handicap, with stones of both
\* players on the board
C11_Witness ==
    /\ last.op = "score" /\ last.ok
    /\ self.handicap < 0
    /\ Len(self.history) >= 2
    /\ _compute_scores(self)[2] >= 0

(***************************************************************************)
(* C12.  Across all operations the current player changes only on a        *)
(* successful non-ending move: no other operation or outcome changes the   *)
(* value of current.                                                       *)
(* As stated this fails: a successful Undo of a non-ending move gives the  *)
(* turn back, and a successful InitGame resets current to 1.               *)
(***************************************************************************)
C12_CurrentOnlyOnMove ==
    [][self'.current # self.current => (MoveApplied /\ ~self'.ended)]_vars

(***************************************************************************)
(* C12 as amended.  The current player changes only (a) on a successful    *)
(* non-ending Play or GenMove, which passes the turn, (b) on a successful  *)
(* Undo in a game that has not ended, which gives the turn back to the     *)
(* player of the undone move, or (c) on a successful InitGame, which       *)
(* resets it to 1.  No failing command, no query (IsLegal, Score, Winner,  *)
(* Show), no resigning GenMove and no game-ending move changes it.         *)
(***************************************************************************)
C12_CurrentChanges ==
    [][self'.current # self.current
          => \/ /\ MoveApplied
                /\ ~self'.ended
                /\ self'.current = 3 - self.current
             \/ /\ last'.op = "undo" /\ last'.ok
                /\ ~self.ended
                /\ self'.current = self.history[Len(self.history)][3]
             \/ /\ last'.op = "init_game" /\ last'.ok
                /\ self'.current = 1]_vars

\* undo has given the turn back to player 2: the one stone left is player
\* 1's, and the undone move cannot have ended the game (cutoff 0, and the
\* board has three cells or more)
C12_Witness ==
    /\ last.op = "undo" /\ last.ok
    /\ self.current = 2
    /\ Len(self.history) = 1
    /\ self.cutoff = 0
    /\ self.cols * self.rows >= 3

(***************************************************************************)
(* C13.  Once ended is true, no further move is applied until Undo clears  *)
(* it: every Play fails and every GenMove reports Resign, and the board,   *)
(* the history and the ended flag (the whole object) stay unchanged        *)
(* through any Play, GenMove, IsLegal, Score, Winner and Show.             *)
(***************************************************************************)
C13_EndedBlocksMoves ==
    [][(self.ended
          /\ last'.op \in {"play", "genmove", "legal", "score", "winner", "show"})
          => /\ self' = self
             /\ last'.op = "play" => ~last'.ok
             /\ last'.op = "genmove" => (last'.ok /\ last'.out[1] = "resign")]_vars

\* a play has been refused on an ended game that still has an Empty cell
C13_Witness ==
    /\ last.op = "play" /\ ~last.ok
    /\ self.ended
    /\ HasEmptyCell(self)
    /\ Len(self.history) >= 2

(***************************************************************************)
(* C14.  Every successful Play or GenMove that places a stone places the   *)
(* stone of the player who was current before the move; if the move does   *)
(* not end the game current flips to the other player, and if it ends the  *)
(* game current stays the player who made the move.                        *)
(***************************************************************************)
C14_TurnAfterMove ==
    [][MoveApplied
          => LET m == self'.history[Len(self'.history)]
             IN  /\ m[3] = self.current
                 /\ CellOr(self, m[1], m[2]) = 0
                 /\ CellOr(self', m[1], m[2]) = self.current
                 /\ ~self'.ended => self'.current = 3 - self.current
                 /\ self'.ended => self'.current = self.current]_vars

\* player 2 has just made the move that ended a game with a cutoff
C14_Witness ==
    /\ last.op \in {"play", "genmove"} /\ last.ok
    /\ self.ended
    /\ self.cutoff > 0
    /\ self.history # <<>>
    /\ self.history[Len(self.history)][3] = 2
    /\ self.current = 2

(***************************************************************************)
(* C15.  Whenever at least one legal cell exists, every draw GenMove can   *)
(* make is a cell (c,r) that is legal in the current state, GenMove        *)
(* succeeds and prints "c r", and the object it leaves is exactly the one  *)
(* a successful Play(c,r) leaves from the same state; every legal cell is  *)
(* the result of some draw.                                                *)
(***************************************************************************)
C15_GenMoveIsPlay ==
    LET moves == legal_moves(self)
        draws == 1 .. Len(moves)
    IN  /\ \A rnd \in draws :
              LET g == genmove(self, <<>>, rnd)
                  c == moves[rnd][1]
                  r == moves[rnd][2]
                  p == play(self, <<I(c), I(r)>>)
              IN  /\ _is_legal(self, c, r)
                  /\ g.ok /\ p.ok
                  /\ g.out = <<ToString(c) \o " " \o ToString(r)>>
                  /\ g.self = p.self
        /\ \A c \in ProbeCols, r \in ProbeRows :
              _is_legal(self, c, r)
                 => \E rnd \in draws :
                       genmove(self, <<>>, rnd).self.history
                          = Append(self.history, <<c, r, self.current>>)

\* GenMove has placed a stone and several legal cells are still on offer
C15_Witness ==
    /\ last.op = "genmove" /\ last.ok
    /\ last.out[1] # "resign"
    /\ Len(self.history) >= 2
    /\ Len(legal_moves(self)) >= 2

(***************************************************************************)
(* C16.  In every reachable state the board is exactly the replay of the   *)
(* history: the history holds pairwise distinct in-bounds cells, each      *)
(* entry (c,r,p) has board cell (c,r) equal to p with p a player, every    *)
(* cell that is not in the history is Empty, and the number of occupied    *)
(* cells equals the history length.                                        *)
(***************************************************************************)
Occupied(s) == {x \in cells(s) : CellOr(s, x[1], x[2]) # 0}

C16_BoardIsReplay ==
    LET h == self.history
        n == Len(h)
    IN  /\ \A i \in 1 .. n :
              /\ _in_bounds(self, h[i][1], h[i][2])
              /\ h[i][3] \in {1, 2}
              /\ CellOr(self, h[i][1], h[i][2]) = h[i][3]
        /\ \A i, j \in 1 .. n :
              i # j => <<h[i][1], h[i][2]>> # <<h[j][1], h[j][2]>>
        /\ \A x \in cells(self) :
              (\A i \in 1 .. n : <<h[i][1], h[i][2]>> # x)
                 => CellOr(self, x[1], x[2]) = 0
        /\ Cardinality(Occupied(self)) = n

\* an undo has taken a stone off a board that still holds two
C16_Witness ==
    /\ last.op = "undo" /\ last.ok
    /\ Len(self.history) = 2
    /\ Cardinality(Occupied(self)) = 2
    /\ HasEmptyCell(self)

(***************************************************************************)
(* C17.  In every reachable state the players recorded in the history      *)
(* strictly alternate starting with player 1 (the i-th move, counting      *)
(* from 0, is by player 1 when i is even and by player 2 when i is odd);   *)
(* while ended is false current is 1 when the history length is even and   *)
(* 2 when it is odd; while ended is true current is the player of the      *)
(* last history entry.                                                     *)
(***************************************************************************)
C17_Alternation ==
    LET h == self.history
        n == Len(h)
    IN  /\ \A i \in 1 .. n : h[i][3] = (IF (i - 1) % 2 = 0 THEN 1 ELSE 2)
        /\ ~self.ended => self.current = (IF n % 2 = 0 THEN 1 ELSE 2)
        /\ self.ended => (n >= 1 /\ self.current = h[n][3])

\* an undo has taken back player 1's third move in a game with a cutoff
C17_Witness ==
    /\ last.op = "undo" /\ last.ok
    /\ ~self.ended
    /\ Len(self.history) = 2
    /\ self.current = 1
    /\ self.cutoff > 0

(***************************************************************************)
(* C18.  The end condition of the current board: for cutoff == 0 the       *)
(* board has no Empty cell, for cutoff > 0 at least one player's score     *)
(* (player 2's including the handicap) is >= cutoff.                       *)
(***************************************************************************)
EndCondition(s) ==
    LET sc == _compute_scores(s)
    IN  IF s.cutoff = 0 THEN ~HasEmptyCell(s)
        ELSE sc[1] >= s.cutoff \/ sc[2] >= s.cutoff

\* C18 as stated: in every state reached from a successful InitGame, ended
\* is true if and only if the end condition holds for the current board.
C18_EndedIffEndCondition ==
    self.cols >= 1 => (self.ended <=> EndCondition(self))

\* C18 as it holds: in every state reached from a successful InitGame,
\* ended is true if and only if the history is not empty and the end
\* condition holds for the current board; with an empty history ended is
\* false, also when the handicap alone reaches a cutoff > 0.
C18_EndedIffMovedAndEndCondition ==
    self.cols >= 1
       => (self.ended <=> (self.history # <<>> /\ EndCondition(self)))

\* player 2's handicap has carried them over the cutoff on their own move
C18_Witness ==
    /\ self.ended
    /\ self.cutoff > 0
    /\ Len(self.history) >= 2
    /\ self.current = 2
    /\ _compute_scores(self)[1] < self.cutoff
    /\ _compute_scores(self)[2] >= self.cutoff

(***************************************************************************)
(* The games made of moves only: after a successful init_game the driver   *)
(* sends nothing but play and genmove.  Boards have up to MaxMoveCells     *)
(* cells, enough for three stones of one player in a line with the         *)
(* opponent's stones between the turns.                                    *)
(***************************************************************************)
MaxMoveCells == 6

\* cutoffs "0" and "2"
MoveCutoffs == {I(0), I(2)}

MoveInitArgs ==
    {a \in DimInputs(MaxCols) \X DimInputs(MaxRows) \X HandicapInputs \X MoveCutoffs :
        /\ DimsAccepted(a[1].v, a[2].v)
        /\ a[1].v * a[2].v <= MaxMoveCells}

InitMove ==
    \E args \in MoveInitArgs :
      \E res \in {main_loop(__init__, "init_game", args, 1)} :
        /\ self = res.self
        /\ last = [ok |-> res.ok, out |-> res.out, op |-> "init_game"]

NextMove == Play \/ GenMove

SpecMove == InitMove /\ [][NextMove]_vars

\* the same games under a driver that keeps sending genmove: whenever a
\* genmove would change the state, one is eventually processed.  The games
\* start with handicap "0" on boards of up to MaxCells cells.
FairInitArgs ==
    {a \in MoveInitArgs : a[1].v * a[2].v <= MaxCells /\ a[3] = I(0)}

InitFair ==
    \E args \in FairInitArgs :
      \E res \in {main_loop(__init__, "init_game", args, 1)} :
        /\ self = res.self
        /\ last = [ok |-> res.ok, out |-> res.out, op |-> "init_game"]

SpecMoveFair == InitFair /\ [][NextMove]_vars /\ WF_vars(GenMove)

(***************************************************************************)
(* C19.  Every successful Play or GenMove that places a stone increases    *)
(* the moving player's score by at least 1 and leaves the other player's   *)
(* score unchanged, whatever the board and the legal cell (moves that      *)
(* join singletons or merge runs included).  Scores are in halves.         *)
(***************************************************************************)
C19_MoveRaisesMoverScore ==
    [][MoveApplied
          => LET p      == self.current
                 before == _compute_scores(self)
                 after  == _compute_scores(self')
             IN  /\ after[p] >= before[p] + 2
                 /\ after[3 - p] = before[3 - p]]_vars

\* the last move has closed the gap between two stones of the mover: a run
\* of three counted now, the board held its two ends as singletons before
C19_Witness ==
    /\ last.op \in {"play", "genmove"} /\ last.ok
    /\ Len(self.history) = 5
    /\ \E y \in long_runs(self) :
          /\ y.length = 3
          /\ y.p = 1
          /\ self.history[5][1] = y.c + dirs[y.d][1]
          /\ self.history[5][2] = y.r + dirs[y.d][2]
    /\ _compute_scores([self EXCEPT
                          !.board[self.history[5][2] + 1][self.history[5][1] + 1] = 0])[1]
          = 4

(***************************************************************************)
(* C20.  After a successful InitGame, in a run made of Play and GenMove    *)
(* only: every successful move takes one more entry of the history, which  *)
(* never holds more than rows*cols entries, so there are at most rows*cols *)
(* successful moves; when the driver keeps sending GenMove the game        *)
(* eventually reaches, and then stays in, a state with no legal cell;      *)
(* there every GenMove reports Resign and changes nothing; and with        *)
(* cutoff == 0 a state with no legal cell has ended = true.                *)
(***************************************************************************)
NoLegalCell == legal_moves(self) = <<>>

C20_GamesTerminate ==
    /\ [](Len(self.history) <= self.rows * self.cols)
    /\ [][(/\ last'.op \in {"play", "genmove"}
           /\ last'.ok
           /\ last'.out[1] # "resign")
             => Len(self'.history) = Len(self.history) + 1]_vars
    /\ <>[]NoLegalCell
    /\ [][(NoLegalCell /\ last'.op = "genmove")
             => (last'.ok /\ last'.out[1] = "resign" /\ self' = self)]_vars
    /\ [](NoLegalCell /\ self.cutoff = 0 => self.ended)

\* GenMove resigns on the largest board, filled by rows*cols moves
C20_Witness ==
    /\ last.op = "genmove" /\ last.ok
    /\ last.out[1] = "resign"
    /\ self.cutoff = 0
    /\ self.ended
    /\ self.rows * self.cols = MaxCells
    /\ Len(self.history) = self.rows * self.cols

====
